---- MODULE Spec2Model ----
(***************************************************************************)
(* A model of src/ai_news.py, the "News Orchestrator" dashboard: the text  *)
(* helpers (clean_text, get_combined_text), summarize_articles,            *)
(* generate_timeline, score_source and the "generate" block that stores    *)
(* their results in the Streamlit session state.                           *)
(*                                                                         *)
(* A Python str is a sequence of one-character strings.  A datetime is a   *)
(* record [day, tod] (calendar day, time of day).  An exact float is a     *)
(* reduced fraction [num, den].  The three external capabilities (the      *)
(* spaCy recogniser, the summarizer, dateparser) are opaque: what they     *)
(* answer is drawn from small pools.                                       *)
(***************************************************************************)
EXTENDS Integers, Sequences, FiniteSets, TLC

VARIABLES
    pc,                     \* which function call or handler has run
    \* clean_text / get_combined_text, applied to one article
    row,
    \* summarize_articles: argument, the summarizer's answers, locals, result
    texts, answers, individual_summaries, final_summary, summary_ret,
    \* generate_timeline: argument, the recogniser's answers, locals, result
    tdf, ents, timeline_events, timeline_ret,
    \* score_source and lines 323-324: arguments, result, column, its mean
    corpus, query, score_ret, reliability, aggregate,
    \* st.session_state (df, timeline, summary, avg_score) and, of the latest
    \* run, what was fetched and what the capabilities answered
    session, oracle

textVars == <<row>>
sumVars == <<texts, answers, individual_summaries, final_summary, summary_ret>>
tlVars == <<tdf, ents, timeline_events, timeline_ret>>
scoreVars == <<corpus, query, score_ret, reliability, aggregate>>
sessVars == <<session, oracle>>
vars == <<pc, textVars, sumVars, tlVars, scoreVars, sessVars>>

None == "None"

-----------------------------------------------------------------------------
(* Python str operations used by the program *)

\* The characters of the model (newline and printable ASCII but the
\* double quote, the backslash and the backquote), in code-point order.
Chars ==
    <<"\n", " ", "!", "#", "$", "%", "&", "'", "(", ")", "*", "+", ",", "-", ".",
      "/", "0", "1", "2", "3", "4", "5", "6", "7", "8", "9", ":", ";", "<", "=", ">",
      "?", "@", "A", "B", "C", "D", "E", "F", "G", "H", "I", "J", "K", "L", "M", "N",
      "O", "P", "Q", "R", "S", "T", "U", "V", "W", "X", "Y", "Z", "[", "]", "^",
      "_", "a", "b", "c", "d", "e", "f", "g", "h", "i", "j", "k", "l", "m", "n",
      "o", "p", "q", "r", "s", "t", "u", "v", "w", "x", "y", "z", "{", "|", "}", "~">>
UpperCase ==
    <<"A", "B", "C", "D", "E", "F", "G", "H", "I", "J", "K", "L", "M", "N", "O", "P",
      "Q", "R", "S", "T", "U", "V", "W", "X", "Y", "Z">>
LowerCase ==
    <<"a", "b", "c", "d", "e", "f", "g", "h", "i", "j", "k", "l", "m", "n", "o", "p",
      "q", "r", "s", "t", "u", "v", "w", "x", "y", "z">>

Ord(c) == CHOOSE i \in 1..Len(Chars) : Chars[i] = c

IsSpace(c) == c \in {" ", "\n"}

ToUpper(c) ==
    IF \E i \in 1..Len(LowerCase) : LowerCase[i] = c
    THEN UpperCase[CHOOSE i \in 1..Len(LowerCase) : LowerCase[i] = c]
    ELSE c

ToLower(c) ==
    IF \E i \in 1..Len(UpperCase) : UpperCase[i] = c
    THEN LowerCase[CHOOSE i \in 1..Len(UpperCase) : UpperCase[i] = c]
    ELSE c

SetMin(S) == CHOOSE m \in S : \A n \in S : m <= n
SetMax(S) == CHOOSE m \in S : \A n \in S : n <= m

\* len(s.split()): the number of maximal runs of non-whitespace characters.
SplitLen(s) ==
    Cardinality({i \in 1..Len(s) : /\ ~IsSpace(s[i])
                                   /\ (i = 1 \/ IsSpace(s[i - 1]))})

\* s.strip()
Strip(s) ==
    LET solid == {i \in 1..Len(s) : ~IsSpace(s[i])}
    IN  IF solid = {} THEN <<>> ELSE SubSeq(s, SetMin(solid), SetMax(solid))

\* s.replace(old, ""), from position i on: non-overlapping occurrences, left to right.
RECURSIVE RemoveFrom(_, _, _)
RemoveFrom(s, old, i) ==
    IF i > Len(s) THEN <<>>
    ELSE IF i + Len(old) - 1 <= Len(s) /\ SubSeq(s, i, i + Len(old) - 1) = old
         THEN RemoveFrom(s, old, i + Len(old))
         ELSE <<s[i]>> \o RemoveFrom(s, old, i + 1)

\* s.replace(old, ""); an empty old matches between characters and removes nothing.
Remove(s, old) == IF old = <<>> THEN s ELSE RemoveFrom(s, old, 1)

\* s.capitalize(): first character upper-cased, the rest lower-cased.
RECURSIVE LowerFrom(_, _)
LowerFrom(s, i) ==
    IF i > Len(s) THEN <<>> ELSE <<ToLower(s[i])>> \o LowerFrom(s, i + 1)

Capitalize(s) == IF s = <<>> THEN <<>> ELSE <<ToUpper(s[1])>> \o LowerFrom(s, 2)

\* " ".join(pieces)
RECURSIVE JoinSpace(_)
JoinSpace(pieces) ==
    IF pieces = <<>> THEN <<>>
    ELSE IF Len(pieces) = 1 THEN pieces[1]
    ELSE pieces[1] \o <<" ">> \o JoinSpace(Tail(pieces))

\* a < b for Python str (code-point lexical order)
RECURSIVE StrLess(_, _)
StrLess(a, b) ==
    IF b = <<>> THEN FALSE
    ELSE IF a = <<>> THEN TRUE
    ELSE IF a[1] # b[1] THEN Ord(a[1]) < Ord(b[1])
    ELSE StrLess(Tail(a), Tail(b))

-----------------------------------------------------------------------------
(* clean_text and get_combined_text *)

MinTokens == 5

\* re.sub(r"<.*?>", "", t) from position i on: a "<" starts a tag when a ">"
\* follows with no newline in between ("." does not match a newline); the
\* match is lazy, so it ends at the first ">".
RECURSIVE RemoveTagsFrom(_, _)
RemoveTagsFrom(t, i) ==
    IF i > Len(t) THEN <<>>
    ELSE LET closers == {j \in (i + 1)..Len(t) : t[j] = ">"}
             isTag == /\ t[i] = "<"
                      /\ closers # {}
                      /\ \A k \in (i + 1)..(SetMin(closers) - 1) : t[k] # "\n"
         IN  IF isTag THEN RemoveTagsFrom(t, SetMin(closers) + 1)
             ELSE <<t[i]>> \o RemoveTagsFrom(t, i + 1)

\* re.sub(r"\s+", " ", t): every maximal whitespace run becomes one space.
RECURSIVE CollapseSpacesFrom(_, _)
CollapseSpacesFrom(t, i) ==
    IF i > Len(t) THEN <<>>
    ELSE IF ~IsSpace(t[i]) THEN <<t[i]>> \o CollapseSpacesFrom(t, i + 1)
    ELSE IF i > 1 /\ IsSpace(t[i - 1]) THEN CollapseSpacesFrom(t, i + 1)
    ELSE <<" ">> \o CollapseSpacesFrom(t, i + 1)

CollapseSpaces(t) == CollapseSpacesFrom(t, 1)

clean_text(t) == Strip(CollapseSpaces(RemoveTagsFrom(t, 1)))

get_combined_text_off_by_one(r) ==
    IF SplitLen(r.clean) <= MinTokens THEN r.title ELSE r.clean

get_combined_text(r) ==
    IF SplitLen(r.clean) < MinTokens THEN r.title ELSE r.clean

\* Line 306 for one article: df["clean"] = df["content"].apply(clean_text)
WithClean(art) ==
    [title |-> art.title, content |-> art.content,
     source |-> art.source, link |-> art.link,
     clean |-> clean_text(art.content)]

\* Line 315 for one article: df["combined_text"] = df.apply(get_combined_text, axis=1)
WithCombinedText(r) ==
    [title |-> r.title, content |-> r.content,
     source |-> r.source, link |-> r.link,
     clean |-> r.clean,
     combined_text |-> get_combined_text(r)]

\* Lines 306-315 for one article: the clean and combined_text columns.
Normalize(art) == WithCombinedText(WithClean(art))

-----------------------------------------------------------------------------
(* Inputs of the text helpers *)

MaxPieces == 5

ContentPieces == {<<"a", " ">>, <<"b">>, <<"<">>, <<">">>, <<" ", "\n">>}

RECURSIVE Concats(_)
Concats(n) ==
    IF n = 0 THEN {<<>>}
    ELSE LET shorter == Concats(n - 1)
         IN  shorter \cup {s \o p : s \in shorter, p \in ContentPieces}

TextTitles ==
    {<<>>, <<" ">>,
     <<"S", "u", "m", "m", "i", "t", " ", "B", "e", "g", "i", "n", "s">>}

NoRow == [title |-> <<>>, content |-> <<>>, source |-> <<>>, link |-> <<>>]

\* The variables of the calls a specification does not make stay at these values.
TextIdle == row = NoRow
SumIdle ==
    /\ texts = <<>> /\ answers = <<>> /\ individual_summaries = <<>>
    /\ final_summary = <<>> /\ summary_ret = <<>>
TlIdle == tdf = <<>> /\ ents = <<>> /\ timeline_events = <<>> /\ timeline_ret = <<>>
ScoreIdle ==
    /\ corpus = <<>> /\ query = <<>> /\ score_ret = None
    /\ reliability = <<>> /\ aggregate = None
SessIdle == session = None /\ oracle = None

InitText ==
    /\ pc = "article"
    /\ row \in [title : TextTitles, content : Concats(MaxPieces),
                source : {<<"A">>}, link : {<<"#">>}]
    /\ SumIdle /\ TlIdle /\ ScoreIdle /\ SessIdle

\* df["clean"] = ...; df["combined_text"] = df.apply(get_combined_text, axis=1)
ApplyNormalize ==
    /\ pc = "article"
    /\ row' = Normalize(row)
    /\ pc' = "normalized"
    /\ UNCHANGED <<sumVars, tlVars, scoreVars, sessVars>>

NextText == ApplyNormalize

SpecText == InitText /\ [][NextText]_vars

SummitBegins == <<"S", "u", "m", "m", "i", "t", " ", "B", "e", "g", "i", "n", "s">>

\* C9: after normalization the article's combined_text is its title, unchanged,
\* when the cleaned content has fewer than 5 whitespace-separated tokens, and the
\* cleaned content otherwise; so it is not empty when the title is not empty.
C9_EffectiveText ==
    pc = "normalized" =>
        /\ row.clean = clean_text(row.content)
        /\ SplitLen(row.clean) < 5 => row.combined_text = row.title
        /\ SplitLen(row.clean) >= 5 => row.combined_text = row.clean
        /\ row.title # <<>> => row.combined_text # <<>>

\* The spec's example: title "Summit Begins", empty content.
C9_Witness ==
    /\ pc = "normalized"
    /\ row.title = SummitBegins
    /\ row.content = <<>>
    /\ row.combined_text = SummitBegins

-----------------------------------------------------------------------------
(* summarize_articles *)

MaxSummaryChars == 1000

\* "No text available for summary (unexpected error)."
NoTextPlaceholder ==
    <<"N", "o", " ", "t", "e", "x", "t", " ", "a", "v", "a", "i", "l", "a",
      "b", "l", "e", " ", "f", "o", "r", " ", "s", "u", "m", "m", "a", "r",
      "y", " ", "(", "u", "n", "e", "x", "p", "e", "c", "t", "e", "d", " ",
      "e", "r", "r", "o", "r", ")", ".">>

\* "Analysis yielded no useful summary."
NoUsefulPlaceholder ==
    <<"A", "n", "a", "l", "y", "s", "i", "s", " ", "y", "i", "e", "l", "d",
      "e", "d", " ", "n", "o", " ", "u", "s", "e", "f", "u", "l", " ", "s",
      "u", "m", "m", "a", "r", "y", ".">>

Ellipsis == <<".", ".", ".">>

\* What the summarizer does when called on a text: it raises, or returns
\* [0]["summary_text"]: a record [raised, text].
Raises == [raised |-> TRUE, text |-> <<>>]
Returns(t) == [raised |-> FALSE, text |-> t]

SummaryPiece_drops_failed(text, answer) ==
    IF SplitLen(text) < MinTokens THEN text
    ELSE IF answer.raised THEN <<>> ELSE answer.text

\* One iteration of the loop of lines 162-178: the piece appended for text.
SummaryPiece(text, answer) ==
    IF SplitLen(text) < MinTokens THEN text
    ELSE IF answer.raised THEN text ELSE answer.text

RECURSIVE IndividualSummaries(_, _)
IndividualSummaries(ts, as) ==
    IF ts = <<>> THEN <<>>
    ELSE <<SummaryPiece(Head(ts), Head(as))>> \o IndividualSummaries(Tail(ts), Tail(as))

Truncate_no_marker(final) ==
    IF Len(final) > MaxSummaryChars THEN SubSeq(final, 1, MaxSummaryChars) ELSE final

\* Line 186
Truncate(final) ==
    IF Len(final) > MaxSummaryChars
    THEN SubSeq(final, 1, MaxSummaryChars) \o Ellipsis
    ELSE final

\* Lines 183-186: what is returned for the joined summaries.
Finish(final) ==
    IF Strip(final) = <<>> THEN NoUsefulPlaceholder ELSE Truncate(final)

summarize_articles(ts, as) ==
    IF ts = <<>> THEN NoTextPlaceholder
    ELSE Finish(JoinSpace(IndividualSummaries(ts, as)))

-----------------------------------------------------------------------------
(* Inputs of summarize_articles *)

MaxTexts == 2
HalfChars == 500

\* n characters of one-letter words: "w w w ..."
Words(n) == [i \in 1..n |-> IF i % 2 = 1 THEN "w" ELSE " "]

SummaryTexts ==
    {<<>>, <<"a", " ", "b">>, <<"a", " ", "b", " ", "c", " ", "d", " ", "e">>,
     Words(HalfChars - 1), Words(HalfChars + 1)}

SummarizerAnswers ==
    {Raises, Returns(<<"f", "a", "c", "t">>), Returns(Words(HalfChars))}

SeqsUpTo(S, n) == UNION {[1..k -> S] : k \in 0..n}

InitSummary ==
    /\ pc = "texts"
    /\ texts \in SeqsUpTo(SummaryTexts, MaxTexts)
    /\ answers \in [1..Len(texts) -> SummarizerAnswers]
    /\ individual_summaries = <<>> /\ final_summary = <<>> /\ summary_ret = <<>>
    /\ TextIdle /\ TlIdle /\ ScoreIdle /\ SessIdle

\* summarize_articles(texts) on an empty list: the early return of lines 157-159.
CallSummarizeEmpty ==
    /\ pc = "texts"
    /\ texts = <<>>
    /\ summary_ret' = summarize_articles(texts, answers)
    /\ pc' = "summarized"
    /\ UNCHANGED <<texts, answers, individual_summaries, final_summary>>
    /\ UNCHANGED <<textVars, tlVars, scoreVars, sessVars>>

\* summarize_articles(texts) on a non-empty list, with its locals at the return.
CallSummarize ==
    /\ pc = "texts"
    /\ texts # <<>>
    /\ individual_summaries' = IndividualSummaries(texts, answers)
    /\ final_summary' = JoinSpace(individual_summaries')
    /\ summary_ret' = summarize_articles(texts, answers)
    /\ pc' = "summarized"
    /\ UNCHANGED <<texts, answers>>
    /\ UNCHANGED <<textVars, tlVars, scoreVars, sessVars>>

NextSummary == CallSummarizeEmpty \/ CallSummarize

SpecSummary == InitSummary /\ [][NextSummary]_vars

\* The piece the claim expects for text i.
ExpectedPiece(i) ==
    IF SplitLen(texts[i]) < 5 \/ answers[i].raised THEN texts[i] ELSE answers[i].text

\* Where piece i starts in the space-separated concatenation (0-based offset).
RECURSIVE PieceOffset(_)
PieceOffset(i) ==
    IF i = 1 THEN 0 ELSE PieceOffset(i - 1) + Len(ExpectedPiece(i - 1)) + 1

\* C5: for a non-empty input the pre-truncation result is the space-separated
\* concatenation, in input order, of exactly one piece per text: the text itself
\* when it has fewer than 5 tokens or the summarizer raised on it, the
\* summarizer's output otherwise; a raise never drops or aborts anything.
C5_PerItemFallback ==
    (pc = "summarized" /\ texts # <<>>) =>
        LET n == Len(texts)
        IN  /\ Len(individual_summaries) = n
            /\ Len(final_summary) = PieceOffset(n) + Len(ExpectedPiece(n))
            /\ \A i \in 1..n :
                 /\ SubSeq(final_summary, PieceOffset(i) + 1,
                           PieceOffset(i) + Len(ExpectedPiece(i))) = ExpectedPiece(i)
                 /\ i > 1 => final_summary[PieceOffset(i)] = " "

\* The summarizer raised on the first of two texts and answered on the second.
C5_Witness ==
    /\ pc = "summarized"
    /\ Len(texts) = 2
    /\ SplitLen(texts[1]) >= 5 /\ answers[1] = Raises
    /\ SplitLen(texts[2]) >= 5 /\ answers[2] = Returns(<<"f", "a", "c", "t">>)
    /\ final_summary = texts[1] \o <<" ", "f", "a", "c", "t">>

\* C7 as stated: the result has at most 1000 + 3 characters; it is the first 1000
\* characters of the concatenated summary followed by "..." when that is longer
\* than 1000 characters, and the concatenated summary unchanged otherwise
\* (read for a list that is not empty, where there is a concatenation).
C7_AsStated ==
    (pc = "summarized" /\ texts # <<>>) =>
        /\ Len(summary_ret) <= 1000 + 3
        /\ Len(final_summary) > 1000 =>
               summary_ret = SubSeq(final_summary, 1, 1000) \o <<".", ".", ".">>
        /\ Len(final_summary) <= 1000 => summary_ret = final_summary

\* C7 amended: the same, for a concatenated summary that holds a non-whitespace
\* character; for an empty input list, and for a concatenation that is empty or
\* all whitespace, the result is a fixed placeholder instead.
C7_Truncation ==
    pc = "summarized" =>
        /\ Len(summary_ret) <= 1000 + 3
        /\ texts = <<>> => summary_ret = NoTextPlaceholder
        /\ (texts # <<>> /\ \A i \in 1..Len(final_summary) : IsSpace(final_summary[i]))
               => summary_ret = NoUsefulPlaceholder
        /\ (\E i \in 1..Len(final_summary) : ~IsSpace(final_summary[i])) =>
               /\ Len(final_summary) > 1000 =>
                      summary_ret = SubSeq(final_summary, 1, 1000) \o <<".", ".", ".">>
               /\ Len(final_summary) <= 1000 => summary_ret = final_summary

\* A concatenation of 1001 characters, cut to 1000 and marked.
C7_Witness ==
    /\ pc = "summarized"
    /\ Len(final_summary) = 1001
    /\ Len(summary_ret) = 1003
    /\ SubSeq(summary_ret, 1001, 1003) = <<".", ".", ".">>

-----------------------------------------------------------------------------
(* generate_timeline *)

\* What dateparser.parse answers for an entity's text: None, or a datetime.
\* The datetimes of the model lie in March 2020: [day, tod] is the day of the
\* month and the time of day.
NoDate == [ok |-> FALSE, day |-> 0, tod |-> 0]
Parsed(d, t) == [ok |-> TRUE, day |-> d, tod |-> t]

Digits == <<"0", "1", "2", "3", "4", "5", "6", "7", "8", "9">>

\* parsed_date.strftime("%Y-%m-%d"): the calendar date, without the time of day.
Strftime(date) ==
    <<"2", "0", "2", "0", "-", "0", "3", "-">>
        \o <<Digits[(date.day \div 10) + 1], Digits[(date.day % 10) + 1]>>

\* datetime < datetime
DateLess(a, b) == a.day < b.day \/ (a.day = b.day /\ a.tod < b.tod)

EventLabels == {"DATE", "EVENT"}

\* Lines 219-227: the event dict of a resolved date.
Event(r, date, milestone) ==
    [date |-> date, date_str |-> Strftime(date),
     milestone |-> Capitalize(milestone),
     source |-> r.source, link |-> r.link]

EventFrom_keeps_unresolved(r, ent, sentence, milestone) ==
    IF ent.label \notin EventLabels THEN <<>>
    ELSE IF SplitLen(sentence) < MinTokens THEN <<>>
    ELSE IF milestone = <<>> THEN <<>>
    ELSE <<Event(r, [day |-> ent.parsed.day, tod |-> ent.parsed.tod], milestone)>>

\* Lines 204-227 for an entity whose sentence and milestone text are given:
\* the checks in the order of the code, and the event appended.
EventFrom(r, ent, sentence, milestone) ==
    IF ent.label \notin EventLabels THEN <<>>
    ELSE IF SplitLen(sentence) < MinTokens THEN <<>>
    ELSE IF milestone = <<>> THEN <<>>
    ELSE IF ~ent.parsed.ok THEN <<>>
    ELSE <<Event(r, [day |-> ent.parsed.day, tod |-> ent.parsed.tod], milestone)>>

\* The body of the loop over doc.ents (lines 203-227): the events appended for
\* one entity of one article, none or one.  sentence is ent.sent.text.strip()
\* (line 205), the milestone text sentence.replace(article_title, "").strip()
\* (line 210).
EventOf(r, ent) ==
    EventFrom(r, ent, Strip(ent.sent), Strip(Remove(Strip(ent.sent), r.title)))

\* The inner loop: the events of one article, in the order of its entities.
RECURSIVE RowEvents(_, _)
RowEvents(r, es) ==
    IF es = <<>> THEN <<>> ELSE EventOf(r, Head(es)) \o RowEvents(r, Tail(es))

\* The outer loop (df.iterrows(), line 197): timeline_events after it.
RECURSIVE TimelineEvents(_, _)
TimelineEvents(rows, es) ==
    IF rows = <<>> THEN <<>>
    ELSE RowEvents(Head(rows), Head(es)) \o TimelineEvents(Tail(rows), Tail(es))

EventKey(e) == <<e.date_str, e.milestone>>

RECURSIVE UniqueEvents_last_wins(_, _)
UniqueEvents_last_wins(events, unique) ==
    IF events = <<>> THEN unique
    ELSE LET e == Head(events)
             hit == {k \in 1..Len(unique) : EventKey(unique[k]) = EventKey(e)}
         IN  IF hit # {}
             THEN UniqueEvents_last_wins(Tail(events),
                                         [unique EXCEPT ![SetMin(hit)] = e])
             ELSE UniqueEvents_last_wins(Tail(events), Append(unique, e))

UniqueEvents_keeps_all(events, unique) == unique \o events

\* Lines 230-234: unique_events.values(), in insertion order; a key that is
\* already there keeps its first event.
RECURSIVE UniqueEvents(_, _)
UniqueEvents(events, unique) ==
    IF events = <<>> THEN unique
    ELSE LET e == Head(events)
         IN  IF \E k \in 1..Len(unique) : EventKey(unique[k]) = EventKey(e)
             THEN UniqueEvents(Tail(events), unique)
             ELSE UniqueEvents(Tail(events), Append(unique, e))

\* (x['date'], x['source']) < (y['date'], y['source'])
SortKeyLess(x, y) ==
    \/ DateLess(x.date, y.date)
    \/ x.date = y.date /\ StrLess(x.source, y.source)

\* One insertion of a stable sort: e goes before the first element whose key is
\* greater than its own.
InsertSorted(sorted, e) ==
    LET greater == {k \in 1..Len(sorted) : SortKeyLess(e, sorted[k])}
        at == IF greater = {} THEN Len(sorted) + 1 ELSE SetMin(greater)
    IN  SubSeq(sorted, 1, at - 1) \o <<e>> \o SubSeq(sorted, at, Len(sorted))

\* sorted(unique_events.values(), key=lambda x: (x['date'], x['source'])), line 236
RECURSIVE Sorted(_, _)
Sorted(events, sorted) ==
    IF events = <<>> THEN sorted
    ELSE Sorted(Tail(events), InsertSorted(sorted, Head(events)))

generate_timeline(d, es) ==
    IF "combined_text" \notin d.columns THEN <<>>
    ELSE Sorted(UniqueEvents(TimelineEvents(d.rows, es), <<>>), <<>>)

-----------------------------------------------------------------------------
(* Inputs of generate_timeline *)

MaxArticles == 2

FetchColumns == {"title", "content", "source", "link"}
MainColumns == FetchColumns \cup {"clean", "combined_text"}

TextABCDE == <<"a", " ", "b", " ", "c", " ", "d", " ", "e", ".">>
TextTwoSentences ==
    <<"A", " ", "b", " ", "c", " ", "d", " ", "e", ".",
      " ", "f", " ", "g", " ", "c", " ", "d", " ", "e", " ", "f">>
TextShortTail == <<"a", " ", "b", " ", "c", " ", "d", " ", "e", ".", " ", "f", " ", "g">>

TimelineRows ==
    {[title |-> <<>>, combined_text |-> TextABCDE,
      source |-> <<"Z">>, link |-> <<"1">>],
     [title |-> <<"f", " ", "g">>, combined_text |-> TextTwoSentences,
      source |-> <<"A">>, link |-> <<"2">>],
     [title |-> TextABCDE, combined_text |-> TextShortTail,
      source |-> <<"A", "P">>, link |-> <<"3">>]}

\* The k-th sentence of a text: sentences end at a full stop or at the text's end.
SentenceEnds(text) ==
    {k \in 1..Len(text) : text[k] = "."} \cup (IF text = <<>> THEN {} ELSE {Len(text)})

RECURSIVE SentenceStart(_, _)
SentenceStart(text, k) ==
    IF k = 1 THEN 1
    ELSE SetMin({j \in SentenceEnds(text) : j >= SentenceStart(text, k - 1)}) + 1

Sentence(text, k) ==
    SubSeq(text, SentenceStart(text, k),
           SetMin({j \in SentenceEnds(text) : j >= SentenceStart(text, k)}))

\* The recogniser is opaque.  For each text of the pool, the entities it may
\* report, in document order (doc.ents is ordered): the label, the sentence and
\* the answers dateparser may give for the entity's text (a relative expression
\* resolves against the clock of the call, so to more than one time of day).
Mention(l, text, k, ds) == [label |-> l, sent |-> Sentence(text, k), dates |-> ds]

Mentions(text) ==
    CASE text = TextABCDE ->
           <<Mention("DATE", text, 1, {NoDate, Parsed(1, 9), Parsed(1, 17)})>>
      [] text = TextTwoSentences ->
           <<Mention("DATE", text, 1, {NoDate, Parsed(1, 9), Parsed(1, 17)}),
             Mention("EVENT", text, 2, {NoDate, Parsed(1, 17), Parsed(2, 0)})>>
      [] text = TextShortTail ->
           <<Mention("DATE", text, 1, {Parsed(1, 9)}),
             Mention("ORG", text, 1, {NoDate}),
             Mention("DATE", text, 2, {Parsed(2, 0)})>>
      [] OTHER -> <<>>

\* doc.ents of one article: any of its mentions, in order, each with one answer
\* of dateparser.
RECURSIVE Reports(_)
Reports(ms) ==
    IF ms = <<>> THEN {<<>>}
    ELSE LET rest == Reports(Tail(ms))
         IN  rest \cup
             {<<[label |-> Head(ms).label, sent |-> Head(ms).sent, parsed |-> d]>> \o t :
                  d \in Head(ms).dates, t \in rest}

\* doc.ents for each article of rows.
RECURSIVE EntLogs(_)
EntLogs(rows) ==
    IF rows = <<>> THEN {<<>>}
    ELSE {<<first>> \o rest : first \in Reports(Mentions(Head(rows).combined_text)),
                              rest \in EntLogs(Tail(rows))}

InitTimeline ==
    /\ pc = "frame"
    /\ \/ /\ tdf \in [columns : {MainColumns},
                      rows : SeqsUpTo(TimelineRows, MaxArticles) \ {<<>>}]
          /\ ents \in EntLogs(tdf.rows)
       \/ /\ tdf \in [columns : {FetchColumns},
                      rows : SeqsUpTo({NoRow}, MaxArticles)]
          /\ ents = <<>>
    /\ timeline_events = <<>> /\ timeline_ret = <<>>
    /\ TextIdle /\ SumIdle /\ ScoreIdle /\ SessIdle

\* generate_timeline(df) on a frame without the combined_text column (line 194).
CallTimelineNoColumn ==
    /\ pc = "frame"
    /\ "combined_text" \notin tdf.columns
    /\ timeline_ret' = generate_timeline(tdf, ents)
    /\ pc' = "timeline"
    /\ UNCHANGED <<tdf, ents, timeline_events>>
    /\ UNCHANGED <<textVars, sumVars, scoreVars, sessVars>>

\* generate_timeline(df), with its local timeline_events at the return.
CallTimeline ==
    /\ pc = "frame"
    /\ "combined_text" \in tdf.columns
    /\ timeline_events' = TimelineEvents(tdf.rows, ents)
    /\ timeline_ret' = generate_timeline(tdf, ents)
    /\ pc' = "timeline"
    /\ UNCHANGED <<tdf, ents>>
    /\ UNCHANGED <<textVars, sumVars, scoreVars, sessVars>>

NextTimeline == CallTimelineNoColumn \/ CallTimeline

SpecTimeline == InitTimeline /\ [][NextTimeline]_vars

\* C1 as stated: every adjacent pair (m1, m2) of the returned timeline has m1's
\* calendar date earlier than m2's, or the same calendar date and
\* m1.source <= m2.source in lexical order.
C1_AsStated ==
    pc = "timeline" =>
        \A k \in 1..(Len(timeline_ret) - 1) :
            LET m1 == timeline_ret[k]
                m2 == timeline_ret[k + 1]
            IN  \/ m1.date.day < m2.date.day
                \/ /\ m1.date.day = m2.date.day
                   /\ ~StrLess(m2.source, m1.source)

\* C2: no two milestones of the returned timeline have both the same date label
\* and the same text.
C2_NoDuplicateKey ==
    pc = "timeline" =>
        \A i, j \in 1..Len(timeline_ret) :
            i # j =>
                \/ timeline_ret[i].date_str # timeline_ret[j].date_str
                \/ timeline_ret[i].milestone # timeline_ret[j].milestone

\* Two articles of different sources give the same sentence and date: one milestone.
C2_Witness ==
    /\ pc = "timeline"
    /\ Len(timeline_events) = 2
    /\ timeline_events[1].date_str = timeline_events[2].date_str
    /\ timeline_events[1].milestone = timeline_events[2].milestone
    /\ timeline_events[1].link # timeline_events[2].link
    /\ Len(timeline_ret) = 1

\* The entity e of article r passes every filter of the extraction.
Qualifies(r, e) ==
    /\ e.label = "DATE" \/ e.label = "EVENT"
    /\ SplitLen(Strip(e.sent)) >= 5
    /\ Strip(Remove(Strip(e.sent), r.title)) # <<>>
    /\ e.parsed.ok

\* C6: every milestone of the returned timeline comes from a DATE or EVENT entity
\* whose date resolved and whose sentence has at least 5 tokens, and its text is
\* not empty; and every such entity is represented in the timeline whatever
\* entities were skipped before it, an unresolved date included.
C6_OnlyResolvedEntities ==
    pc = "timeline" =>
        /\ \A k \in 1..Len(timeline_ret) :
             LET m == timeline_ret[k]
             IN  /\ m.milestone # <<>>
                 /\ \E i \in 1..Len(tdf.rows) : \E n \in 1..Len(ents[i]) :
                      LET r == tdf.rows[i]
                          e == ents[i][n]
                      IN  /\ e.label \in {"DATE", "EVENT"}
                          /\ e.parsed.ok
                          /\ SplitLen(Strip(e.sent)) >= 5
                          /\ m.date = [day |-> e.parsed.day, tod |-> e.parsed.tod]
                          /\ m.source = r.source /\ m.link = r.link
        /\ \A i \in 1..Len(ents) : \A n \in 1..Len(ents[i]) :
             Qualifies(tdf.rows[i], ents[i][n]) =>
                 \E k \in 1..Len(timeline_ret) :
                     /\ timeline_ret[k].date_str = Strftime(ents[i][n].parsed)
                     /\ timeline_ret[k].milestone =
                            Capitalize(Strip(Remove(Strip(ents[i][n].sent),
                                                    tdf.rows[i].title)))

\* The first entity of an article does not resolve; the next one gives the
\* timeline's only milestone.
C6_Witness ==
    /\ pc = "timeline"
    /\ Len(ents) >= 1 /\ Len(ents[1]) = 2
    /\ ents[1][1].label = "DATE" /\ ~ents[1][1].parsed.ok
    /\ SplitLen(Strip(ents[1][1].sent)) >= 5
    /\ Qualifies(tdf.rows[1], ents[1][2])
    /\ Len(timeline_ret) = 1

\* The first of timeline_events with the key of m.
FirstWithKey(m) ==
    timeline_events[SetMin({k \in 1..Len(timeline_events) :
                               /\ timeline_events[k].date_str = m.date_str
                               /\ timeline_events[k].milestone = m.milestone})]

\* C10: of the candidates that share a (date label, text) key the timeline keeps
\* the first in iteration order: its source, link and date are that candidate's.
C10_FirstOccurrenceWins ==
    pc = "timeline" =>
        \A k \in 1..Len(timeline_ret) :
            /\ \E n \in 1..Len(timeline_events) :
                   /\ timeline_events[n].date_str = timeline_ret[k].date_str
                   /\ timeline_events[n].milestone = timeline_ret[k].milestone
            /\ timeline_ret[k] = FirstWithKey(timeline_ret[k])

\* Two candidates with one key and different sources: the first one's is kept.
C10_Witness ==
    /\ pc = "timeline"
    /\ Len(timeline_events) = 2
    /\ timeline_events[1].date_str = timeline_events[2].date_str
    /\ timeline_events[1].milestone = timeline_events[2].milestone
    /\ timeline_events[1].source # timeline_events[2].source
    /\ timeline_events[1].date # timeline_events[2].date
    /\ timeline_ret = <<timeline_events[1]>>

-----------------------------------------------------------------------------
(* score_source and the aggregate score *)

DepthWords == 200

RECURSIVE Gcd(_, _)
Gcd(a, b) == IF b = 0 THEN a ELSE Gcd(b, a % b)

\* The number n/d (n >= 0, d > 0), in lowest terms.
Frac(n, d) == [num |-> n \div Gcd(n, d), den |-> d \div Gcd(n, d)]

FracAdd(x, y) == Frac(x.num * y.den + y.num * x.den, x.den * y.den)

RECURSIVE SumInts(_)
SumInts(ns) == IF ns = <<>> THEN 0 ELSE Head(ns) + SumInts(Tail(ns))

RECURSIVE SumFracs(_)
SumFracs(xs) == IF xs = <<>> THEN Frac(0, 1) ELSE FracAdd(Head(xs), SumFracs(Tail(xs)))

\* df[df["source"] == source]["content"].apply(lambda x: len(str(x).split()))
RECURSIVE WordCounts(_, _)
WordCounts(source, rows) ==
    IF rows = <<>> THEN <<>>
    ELSE (IF Head(rows).source = source THEN <<SplitLen(Head(rows).content)>> ELSE <<>>)
         \o WordCounts(source, Tail(rows))

DepthScore_uncapped(total, n) == Frac(total, DepthWords * n)

\* Line 247: min(1.0, avg_len / 200) for n word counts that sum to total.
DepthScore(total, n) ==
    IF total >= DepthWords * n THEN Frac(1, 1) ELSE Frac(total, DepthWords * n)

\* Lines 243-247: 0 for a source without articles, else the capped mean.
ScoreOf(counts) ==
    IF counts = <<>> THEN Frac(0, 1) ELSE DepthScore(SumInts(counts), Len(counts))

score_source(source, rows) == ScoreOf(WordCounts(source, rows))

\* Line 323: df["reliability"] = df["source"].apply(lambda s: score_source(s, df))
RECURSIVE ReliabilityOf(_, _)
ReliabilityOf(rest, rows) ==
    IF rest = <<>> THEN <<>>
    ELSE <<score_source(Head(rest).source, rows)>> \o ReliabilityOf(Tail(rest), rows)

Reliability(rows) == ReliabilityOf(rows, rows)

\* x / n for a fraction x
FracDiv(x, n) == Frac(x.num, x.den * n)

\* Line 324: float(df["reliability"].mean()), for a frame that is not empty
Mean(scores) == FracDiv(SumFracs(scores), Len(scores))

MeanReliability(rows) == Mean(Reliability(rows))

-----------------------------------------------------------------------------
(* Inputs of score_source *)

MaxCorpus == 2

\* "<a b>c": two words as fetched, one once the tag is removed.
TaggedContent == <<"<", "a", " ", "b", ">", "c">>

ScoreContents ==
    {<<>>, TaggedContent, Words(DepthWords - 1), Words(3 * DepthWords - 1)}

ScoreRows ==
    [title : {<<"t">>}, content : ScoreContents, source : {<<"A">>, <<"B">>},
     link : {<<"#">>}]

InitScore ==
    /\ pc = "corpus"
    /\ corpus \in SeqsUpTo(ScoreRows, MaxCorpus)
    /\ query \in {<<"A">>, <<"B">>, <<"X">>}
    /\ score_ret = None /\ reliability = <<>> /\ aggregate = None
    /\ TextIdle /\ SumIdle /\ TlIdle /\ SessIdle

\* score_source(query, corpus)
CallScoreSource ==
    /\ pc = "corpus"
    /\ score_ret' = score_source(query, corpus)
    /\ pc' = "scored"
    /\ UNCHANGED <<corpus, query, reliability, aggregate>>
    /\ UNCHANGED <<textVars, sumVars, tlVars, sessVars>>

\* Lines 323-324, which run for a frame that is not empty.
ComputeAggregate ==
    /\ pc = "scored"
    /\ corpus # <<>>
    /\ reliability' = Reliability(corpus)
    /\ aggregate' = MeanReliability(corpus)
    /\ pc' = "aggregated"
    /\ UNCHANGED <<corpus, query, score_ret>>
    /\ UNCHANGED <<textVars, sumVars, tlVars, sessVars>>

NextScore == CallScoreSource \/ ComputeAggregate

SpecScore == InitScore /\ [][NextScore]_vars

\* x = min(1, (total / n) / 200), for a fraction x and n > 0
IsCappedDepth(x, total, n) ==
    IF total >= 200 * n THEN x.num = x.den
    ELSE x.num * 200 * n = total * x.den

InUnitInterval(x) == x.den > 0 /\ 0 <= x.num /\ x.num <= x.den

\* The raw content fields of the articles of a source: their number and words.
ArticlesOf(source) == {i \in 1..Len(corpus) : corpus[i].source = source}

RECURSIVE WordsOf(_)
WordsOf(is) ==
    IF is = {} THEN 0
    ELSE LET i == CHOOSE j \in is : TRUE
         IN  SplitLen(corpus[i].content) + WordsOf(is \ {i})

\* A common denominator of the first k scores of the column (the least one), and
\* the column's sum over it.
RECURSIVE CommonDen(_)
CommonDen(k) ==
    IF k = 0 THEN 1
    ELSE LET rest == CommonDen(k - 1)
         IN  (rest * reliability[k].den) \div Gcd(rest, reliability[k].den)

RECURSIVE NumSum(_)
NumSum(k) ==
    IF k = 0 THEN 0
    ELSE reliability[k].num * (CommonDen(Len(reliability)) \div reliability[k].den)
         + NumSum(k - 1)

\* C8: score_source returns a value in [0,1] equal to min(1, mean word count of
\* the source's raw content fields / 200), and 0 for a source without articles;
\* the aggregate is the mean of the per-article scores, each article carrying
\* its source's score, and lies in [0,1].
C8_ScoreBounds ==
    /\ pc \in {"scored", "aggregated"} =>
         /\ InUnitInterval(score_ret)
         /\ ArticlesOf(query) = {} => score_ret.num = 0
         /\ ArticlesOf(query) # {} =>
                IsCappedDepth(score_ret, WordsOf(ArticlesOf(query)),
                              Cardinality(ArticlesOf(query)))
    /\ pc = "aggregated" =>
         /\ Len(reliability) = Len(corpus)
         /\ \A i \in 1..Len(corpus) :
                LET same == ArticlesOf(corpus[i].source)
                IN  IsCappedDepth(reliability[i], WordsOf(same), Cardinality(same))
         /\ InUnitInterval(aggregate)
         /\ aggregate.num * Len(corpus) * CommonDen(Len(reliability))
                = aggregate.den * NumSum(Len(reliability))

\* Two articles of one source, 100 and 2 words: each scores 51/200, and so does
\* the aggregate; the source asked for has no article.
C8_Witness ==
    /\ pc = "aggregated"
    /\ Len(corpus) = 2
    /\ ArticlesOf(query) = {}
    /\ score_ret = [num |-> 0, den |-> 1]
    /\ reliability = <<[num |-> 51, den |-> 200], [num |-> 51, den |-> 200]>>
    /\ aggregate = [num |-> 51, den |-> 200]

-----------------------------------------------------------------------------
(* fetch_news_rss and the session: initialisation and the "generate" block *)

max_articles == 15

\* "Enter a topic and click 'Generate Dashboard' to start analysis."
IntroSummary ==
    <<"E", "n", "t", "e", "r", " ", "a", " ", "t", "o", "p", "i", "c", " ",
      "a", "n", "d", " ", "c", "l", "i", "c", "k", " ", "'", "G", "e", "n",
      "e", "r", "a", "t", "e", " ", "D", "a", "s", "h", "b", "o", "a", "r",
      "d", "'", " ", "t", "o", " ", "s", "t", "a", "r", "t", " ", "a", "n",
      "a", "l", "y", "s", "i", "s", ".">>

\* "No news articles found."
NoNewsPlaceholder ==
    <<"N", "o", " ", "n", "e", "w", "s", " ", "a", "r", "t", "i", "c", "l",
      "e", "s", " ", "f", "o", "u", "n", "d", ".">>

Unknown == <<"U", "n", "k", "n", "o", "w", "n">>

\* Lines 135-139: the article of one <item>, with the defaults of its missing
\* children.
ArticleOf(item) ==
    [title |-> IF "title" \in item.tags THEN item.title ELSE <<>>,
     content |-> IF "description" \in item.tags THEN item.description ELSE <<>>,
     source |-> IF "source" \in item.tags THEN item.source ELSE Unknown,
     link |-> IF "link" \in item.tags THEN item.link ELSE <<"#">>]

\* fetch_news_rss(topic): feed is what the request and the parse give, an
\* exception (failed) or the feed's items.  pd.DataFrame([]) has no columns.
fetch_news_rss(feed) ==
    IF feed.failed THEN [columns |-> FetchColumns, rows |-> <<>>]
    ELSE LET items == SubSeq(feed.items, 1,
                             IF Len(feed.items) < max_articles THEN Len(feed.items)
                             ELSE max_articles)
         IN  [columns |-> IF items = <<>> THEN {} ELSE FetchColumns,
              rows |-> [i \in 1..Len(items) |-> ArticleOf(items[i])]]

\* The session state of lines 294-298.
InitialSession ==
    [df |-> [columns |-> {}, rows |-> <<>>],
     timeline |-> <<>>,
     summary |-> IntroSummary,
     avg_score |-> Frac(0, 1)]

\* Lines 306-315 over the rows of the frame.
RECURSIVE NormalizeAll(_)
NormalizeAll(arts) ==
    IF arts = <<>> THEN <<>>
    ELSE <<Normalize(Head(arts))>> \o NormalizeAll(Tail(arts))

\* df['combined_text'].tolist(), line 316
RECURSIVE CombinedTextList(_)
CombinedTextList(rows) ==
    IF rows = <<>> THEN <<>>
    ELSE <<Head(rows).combined_text>> \o CombinedTextList(Tail(rows))

\* Line 323: the frame with its reliability column.
WithReliability(rows, scores) ==
    [i \in 1..Len(rows) |->
       [title |-> rows[i].title, content |-> rows[i].content,
        source |-> rows[i].source, link |-> rows[i].link,
        clean |-> rows[i].clean, combined_text |-> rows[i].combined_text,
        reliability |-> scores[i]]]

\* Lines 319-324 on the normalized rows.
AnalysedRows(rows, as, es) ==
    [df |-> [columns |-> MainColumns \cup {"reliability"},
             rows |-> WithReliability(rows, Reliability(rows))],
     summary |-> summarize_articles(CombinedTextList(rows), as),
     timeline |-> generate_timeline([columns |-> MainColumns, rows |-> rows], es),
     avg_score |-> MeanReliability(rows)]

\* Lines 305-324: the frame is not empty.
Analysed(fetched, as, es) == AnalysedRows(NormalizeAll(fetched.rows), as, es)

GenerateBlock_merges_timeline(state, fetched, as, es) ==
    IF fetched.rows # <<>>
    THEN [Analysed(fetched, as, es) EXCEPT
            !.timeline = Sorted(UniqueEvents(state.timeline \o @, <<>>), <<>>)]
    ELSE [df |-> fetched, timeline |-> <<>>, summary |-> NoNewsPlaceholder,
          avg_score |-> Frac(0, 1)]

GenerateBlock_keeps_when_empty(state, fetched, as, es) ==
    IF fetched.rows # <<>> THEN Analysed(fetched, as, es)
    ELSE [df |-> fetched, timeline |-> state.timeline,
          summary |-> NoNewsPlaceholder, avg_score |-> state.avg_score]

\* Lines 303-329: the session state after the block, from the one before it.
GenerateBlock(state, fetched, as, es) ==
    IF fetched.rows # <<>> THEN Analysed(fetched, as, es)
    ELSE [df |-> fetched, timeline |-> <<>>, summary |-> NoNewsPlaceholder,
          avg_score |-> Frac(0, 1)]

-----------------------------------------------------------------------------
(* Inputs of a session *)

MaxFetched == 2

AllTags == {"title", "description", "link", "source"}

FeedItems ==
    {[tags |-> AllTags, title |-> <<>>,
      description |-> <<"<", "b", ">">> \o TextABCDE \o <<"<", "/", "b", ">">>,
      link |-> <<"1">>, source |-> <<"Z">>],
     [tags |-> AllTags, title |-> <<"f", " ", "g">>,
      description |-> <<"A", " ", "b", " ", "c", " ", "d", " ", "e", ".",
                        "\n", " ", "f", " ", " ", "g", " ", "c", " ", "d", " ", "e", " ", "f">>,
      link |-> <<"2">>, source |-> <<"A">>],
     [tags |-> {"title", "description"}, title |-> TextABCDE,
      description |-> <<"f", " ", "g">>,
      link |-> <<>>, source |-> <<>>]}

Feeds ==
    [failed : {TRUE}, items : {<<>>}] \cup
    [failed : {FALSE}, items : SeqsUpTo(FeedItems, MaxFetched)]

\* In a session the capabilities are functions of their input, as the loaded
\* models are (the summarizer runs with do_sample=False); what varies from run
\* to run is whether the summarizer works and the clock dateparser resolves
\* against.
SummarizerModes == {"up", "down"}
Clocks == {9, 17}

StubSummarizer(text, mode) ==
    IF mode = "down" THEN Raises ELSE Returns(Sentence(text, 1))

StubDateparser(dates, clock) ==
    IF Parsed(1, clock) \in dates THEN Parsed(1, clock)
    ELSE IF NoDate \in dates THEN NoDate
    ELSE CHOOSE d \in dates : TRUE

RECURSIVE Resolve(_, _)
Resolve(ms, clock) ==
    IF ms = <<>> THEN <<>>
    ELSE <<[label |-> Head(ms).label, sent |-> Head(ms).sent,
            parsed |-> StubDateparser(Head(ms).dates, clock)]>>
         \o Resolve(Tail(ms), clock)

StubRecogniser(text, clock) == Resolve(Mentions(text), clock)

\* The answers of the two capabilities for the texts of a run.
RECURSIVE SummarizerAnswersFor(_, _)
SummarizerAnswersFor(ts, mode) ==
    IF ts = <<>> THEN <<>>
    ELSE <<StubSummarizer(Head(ts), mode)>> \o SummarizerAnswersFor(Tail(ts), mode)

RECURSIVE RecogniserAnswersFor(_, _)
RecogniserAnswersFor(ts, clock) ==
    IF ts = <<>> THEN <<>>
    ELSE <<StubRecogniser(Head(ts), clock)>> \o RecogniserAnswersFor(Tail(ts), clock)

CombinedTexts(fetched) == CombinedTextList(NormalizeAll(fetched.rows))

InitSession ==
    /\ pc = "started"
    /\ session = InitialSession
    /\ oracle = [feed |-> [failed |-> FALSE, items |-> <<>>], answers |-> <<>>,
                 ents |-> <<>>, had_timeline |-> FALSE]
    /\ TextIdle /\ SumIdle /\ TlIdle /\ ScoreIdle

\* A run of the script with the button pressed (generate is True).
Generate ==
    \E feed \in Feeds, mode \in SummarizerModes, clock \in Clocks :
        \E fetched \in {fetch_news_rss(feed)} :
            \E ts \in {CombinedTexts(fetched)} :
                \E as \in {SummarizerAnswersFor(ts, mode)},
                   es \in {RecogniserAnswersFor(ts, clock)} :
                    /\ session' = GenerateBlock(session, fetched, as, es)
                    /\ oracle' = [feed |-> feed, answers |-> as, ents |-> es,
                                  had_timeline |-> session.timeline # <<>>]
                    /\ pc' = "generated"
                    /\ UNCHANGED <<textVars, sumVars, tlVars, scoreVars>>

\* A run of the script without the button (any other interaction): the block of
\* lines 300-329 is skipped, and the page is drawn from the session state as it is.
Rerun ==
    /\ pc \in {"started", "generated"}
    /\ UNCHANGED <<pc, textVars, sumVars, tlVars, scoreVars, sessVars>>

Next == Generate \/ Rerun

Spec == InitSession /\ [][Next]_vars

\* The frame, the texts and the three results of the latest run's inputs alone.
LatestFrame == fetch_news_rss(oracle.feed)
LatestRows == NormalizeAll(LatestFrame.rows)

C4_EmptyFetchClears ==
    (pc = "generated" /\ (oracle.feed.failed \/ oracle.feed.items = <<>>)) =>
        /\ session.df.rows = <<>>
        /\ session.summary = NoNewsPlaceholder
        /\ session.timeline = <<>>
        /\ session.avg_score = Frac(0, 1)

\* A failed fetch after a run that had left a timeline.
C4_Witness ==
    /\ pc = "generated"
    /\ oracle.feed.failed
    /\ oracle.had_timeline
    /\ session.df = [columns |-> FetchColumns, rows |-> <<>>]
    /\ session.summary = NoNewsPlaceholder
    /\ session.timeline = <<>>

====
